---------------------------- MODULE Spec2Model ----------------------------
(***************************************************************************)
(* speex-safe: the control plane and the resource lifecycle of the safe    *)
(* wrapper around the Speex codec engine.                                  *)
(*                                                                         *)
(*   src/speex-safe/src/mode/mod.rs    ModeId, ControlError, the trait     *)
(*                                     ControlFunctions, dynamic_mapping!,  *)
(*                                     shared_functions!                    *)
(*   src/speex-safe/src/mode.rs        SpeexEncoderHandle, SpeexEncoder,   *)
(*                                     SpeexDecoderHandle, SpeexDecoder     *)
(*   src/speex-safe/src/stereo_state.rs SpeexStereoState                    *)
(*                                                                         *)
(* The codec engine (the speex_sys crate) is an external collaborator:   *)
(* what it answers to a control request is an input of the model, what it *)
(* stores is modelled from sections 4.3 and 6 of the specification.       *)
(* The specifications share the variables:                                 *)
(*   Spec      one coder driven through the named control operations       *)
(*   SpecCtl   one coder driven through the low-level primitive ctl        *)
(*   SpecLife  construction and destruction of coders and raw handles      *)
(*   SpecStereo construction, reset and destruction of stereo states       *)
(*   SpecDyn   the dynamic facade beside a direct coder                    *)
(*   SpecMode  the mode registry and the selector conversions              *)
(*   SpecPair  coders and stereo states, interleaved                       *)
(***************************************************************************)
EXTENDS Integers, Sequences, FiniteSets, TLC

VARIABLES
    status,   \* "running" | "panicked" (unwinding) | "crashed" (the engine faulted)
    coders,   \* slot -> the SpeexEncoder / SpeexDecoder value living there
    engine,   \* handle -> the engine-side coder instance behind that address
    destroys, \* handle -> the destroy calls the engine received for it: by which
              \* destructors (kinds), and how many ("none", "once", "more")
    faults,   \* the engine calls made on an address that holds no live instance
    raw,      \* the raw handle pointers the caller got from XHandle::create
    stereo,   \* slot -> the SpeexStereoState value living there
    heap,     \* context -> the engine-side stereo context behind that address
    dyn,      \* the DynamicEncoder / DynamicDecoder value of SpecDyn
    last,     \* the last control call and what it gave its caller
    shadow,   \* slot -> parameter -> <<x>>: the last x a named setter stored, <<>> if none
    sync      \* SpecDyn: the facade and the coder in slot 1 started out alike

vars == <<status, coders, engine, destroys, faults, raw, stereo, heap, dyn,
          last, shadow, sync>>

---------------------------------------------------------------------------
(* Bounds of the model.                                                    *)

MaxTouched == 1    \* parameters of a coder that differ from a fresh coder's
MaxCoders == 1     \* coder slots of SpecLife
MaxHandles == 2    \* engine allocations per behaviour
MaxStereo == 2     \* stereo state slots of SpecStereo
MaxResets == 2     \* reset() calls per stereo state
MaxSelector == 12  \* integers handed to the conversions: -MaxSelector..MaxSelector
MaxObjects == 2    \* coders and stereo states constructed per behaviour of SpecPair

---------------------------------------------------------------------------
(* Values of speex_sys the wrapper names.                                  *)

SPEEX_MODEID_NB == 0
SPEEX_MODEID_WB == 1
SPEEX_MODEID_UWB == 2

SPEEX_GET_FRAME_SIZE == 3
SPEEX_SET_QUALITY == 4
SPEEX_SET_VBR == 12
SPEEX_GET_VBR == 13
SPEEX_SET_VBR_QUALITY == 14
SPEEX_GET_VBR_QUALITY == 15
SPEEX_SET_BITRATE == 18
SPEEX_GET_BITRATE == 19
SPEEX_SET_SAMPLING_RATE == 24
SPEEX_GET_SAMPLING_RATE == 25
SPEEX_RESET_STATE == 26
SPEEX_SET_VAD == 30
SPEEX_GET_VAD == 31
SPEEX_SET_ABR == 32
SPEEX_GET_ABR == 33
SPEEX_SET_SUBMODE_ENCODING == 36
SPEEX_GET_SUBMODE_ENCODING == 37
SPEEX_GET_LOOKAHEAD == 39
SPEEX_SET_PLC_TUNING == 40
SPEEX_GET_PLC_TUNING == 41
SPEEX_SET_VBR_MAX_BITRATE == 42
SPEEX_GET_VBR_MAX_BITRATE == 43
SPEEX_SET_HIGHPASS == 44
SPEEX_GET_HIGHPASS == 45

\* enum ModeId
ModeId == {SPEEX_MODEID_NB, SPEEX_MODEID_WB, SPEEX_MODEID_UWB}

\* A null pointer.
NULL == 0

---------------------------------------------------------------------------
(* Inputs.                                                                 *)

\* i32 arguments: zero (what a getter's buffer holds before the call) and a
\* non-zero value.
I32Vals == {0, 7}

\* f32 arguments, in tenths: 0.0 and 7.5.
F32Vals == {0, 75}

\* What the engine's control entry point may answer: the three documented
\* results, and one on each side that the contract excludes.
ErrCodes == {0, -1, -2, -3, 1}


---------------------------------------------------------------------------
(* ControlFunctions::check_error.  Result<(), ControlError> is a record:   *)
(* tag "Ok" | "UnknownRequest" (with its code) | "InvalidParameter"; the   *)
(* panic of the last arm, and of unwrap() on a None param, is tag "Panic". *)
(* param is an Option<i32>: <<>> is None, <<c>> is Some(c).                *)

Res(tag, code) == [tag |-> tag, code |-> code]

check_error_other_request(err_code, param) ==
    CASE err_code = 0 -> Res("Ok", 0)
      [] err_code = -1 -> Res("UnknownRequest", err_code)
      [] err_code = -2 -> Res("InvalidParameter", 0)
      [] OTHER -> Res("Panic", 0)

check_error_swallow(err_code, param) ==
    CASE err_code = 0 -> Res("Ok", 0)
      [] err_code = -1 ->
            IF param = <<>> THEN Res("Panic", 0) ELSE Res("UnknownRequest", param[1])
      [] err_code = -2 -> Res("InvalidParameter", 0)
      [] OTHER -> Res("Ok", 0)

check_error(err_code, param) ==
    CASE err_code = 0 -> Res("Ok", 0)
      [] err_code = -1 ->
            IF param = <<>> THEN Res("Panic", 0) ELSE Res("UnknownRequest", param[1])
      [] err_code = -2 -> Res("InvalidParameter", 0)
      [] OTHER -> Res("Panic", 0)

---------------------------------------------------------------------------
(* The engine's side of a coder.  Its control entry point is external; the *)
(* model stores one scalar per parameter (specification, section 4.3:      *)
(* "each getter returns the stored scalar") and answers err_code, which is *)
(* an input.                                                               *)

Params == {"vbr", "vbr_quality", "vad", "abr", "quality", "bitrate", "sampling_rate",
           "submode_encoding", "plc_tuning", "vbr_max_bitrate", "highpass"}

\* The parameter a request code writes, "none" if it writes none.
SetTarget(request) ==
    CASE request = SPEEX_SET_VBR -> "vbr"
      [] request = SPEEX_SET_VBR_QUALITY -> "vbr_quality"
      [] request = SPEEX_SET_VAD -> "vad"
      [] request = SPEEX_SET_ABR -> "abr"
      [] request = SPEEX_SET_QUALITY -> "quality"
      [] request = SPEEX_SET_BITRATE -> "bitrate"
      [] request = SPEEX_SET_SAMPLING_RATE -> "sampling_rate"
      [] request = SPEEX_SET_SUBMODE_ENCODING -> "submode_encoding"
      [] request = SPEEX_SET_PLC_TUNING -> "plc_tuning"
      [] request = SPEEX_SET_VBR_MAX_BITRATE -> "vbr_max_bitrate"
      [] request = SPEEX_SET_HIGHPASS -> "highpass"
      [] OTHER -> "none"

\* The parameter a request code reads, "none" if it reads none.
GetSource(request) ==
    CASE request = SPEEX_GET_VBR -> "vbr"
      [] request = SPEEX_GET_VBR_QUALITY -> "vbr_quality"
      [] request = SPEEX_GET_VAD -> "vad"
      [] request = SPEEX_GET_ABR -> "abr"
      [] request = SPEEX_GET_BITRATE -> "bitrate"
      [] request = SPEEX_GET_SAMPLING_RATE -> "sampling_rate"
      [] request = SPEEX_GET_SUBMODE_ENCODING -> "submode_encoding"
      [] request = SPEEX_GET_PLC_TUNING -> "plc_tuning"
      [] request = SPEEX_GET_VBR_MAX_BITRATE -> "vbr_max_bitrate"
      [] request = SPEEX_GET_HIGHPASS -> "highpass"
      [] OTHER -> "none"

\* What a fresh engine instance stores.
EngineDefaults == [p \in Params |-> IF p = "quality" THEN 8 ELSE 0]

\* Samples per frame of a mode: 160, 320, 640.
FrameSizeOf(mode) == 160 * (2 ^ mode)

\* Samples of algorithmic delay of a coder of a kind and mode.
LookaheadOf(kind, mode) == (IF kind = "enc" THEN 40 ELSE 0) + 24 * mode

FreeInstance == [alloc |-> "free", kind |-> "none", mode |-> 0, owner |-> "none",
                 store |-> EngineDefaults]

\* speex_encoder_ctl / speex_decoder_ctl on instance e: the store and the
\* caller's buffer after the call.  Only a call answered 0 has an effect.
engine_ctl(e, request, buf, err_code) ==
    CASE err_code # 0 -> [store |-> e.store, buf |-> buf]
      [] err_code = 0 /\ SetTarget(request) # "none" ->
            [store |-> [e.store EXCEPT ![SetTarget(request)] = buf], buf |-> buf]
      [] err_code = 0 /\ GetSource(request) # "none" ->
            [store |-> e.store, buf |-> e.store[GetSource(request)]]
      [] err_code = 0 /\ request = SPEEX_GET_FRAME_SIZE ->
            [store |-> e.store, buf |-> FrameSizeOf(e.mode)]
      [] err_code = 0 /\ request = SPEEX_GET_LOOKAHEAD ->
            [store |-> e.store, buf |-> LookaheadOf(e.kind, e.mode)]
      [] err_code = 0 /\ request = SPEEX_RESET_STATE ->
            [store |-> EngineDefaults, buf |-> buf]
      [] OTHER -> [store |-> e.store, buf |-> buf]

---------------------------------------------------------------------------
(* ControlFunctions::ctl, as SpeexEncoder and SpeexDecoder implement it:   *)
(* the engine's control entry point for the coder's kind, its result       *)
(* translated by check_error with the request code that was issued.        *)

ctl(e, request, buf, err_code) ==
    LET r == engine_ctl(e, request, buf, err_code)
    IN  [res |-> check_error(err_code, <<request>>), request |-> request,
         store |-> r.store, buf |-> r.buf]

---------------------------------------------------------------------------
(* The named operations of ControlFunctions.  Each gives what its caller   *)
(* sees: outcome "Ok" (it returned, ret = <<value>> or <<>> for unit) or    *)
(* "Panic" (unwrap() of an Err, or the panic of check_error).              *)

unwrap_surface(res) == res.tag

\* Result::unwrap
unwrap(res) == IF res.tag = "Ok" THEN "Ok" ELSE "Panic"

Returned(r, ret) ==
    [outcome |-> unwrap(r.res), ret |-> IF unwrap(r.res) = "Ok" THEN ret ELSE <<>>,
     request |-> r.request, store |-> r.store]

get_frame_size(e, err_code) ==
    LET r == ctl(e, SPEEX_GET_FRAME_SIZE, 0, err_code)
    IN  Returned(r, <<r.buf>>)

set_vbr_inverted(e, vbr, err_code) ==
    LET state == IF vbr THEN 0 ELSE 1
        r == ctl(e, SPEEX_SET_VBR, state, err_code)
    IN  Returned(r, <<>>)

set_vbr(e, vbr, err_code) ==
    LET state == IF vbr THEN 1 ELSE 0
        r == ctl(e, SPEEX_SET_VBR, state, err_code)
    IN  Returned(r, <<>>)

get_vbr(e, err_code) ==
    LET r == ctl(e, SPEEX_GET_VBR, 0, err_code)
    IN  Returned(r, <<r.buf # 0>>)

set_vbr_quality(e, quality, err_code) ==
    LET r == ctl(e, SPEEX_SET_VBR_QUALITY, quality, err_code)
    IN  Returned(r, <<>>)

get_vbr_quality(e, err_code) ==
    LET r == ctl(e, SPEEX_GET_VBR_QUALITY, 0, err_code)
    IN  Returned(r, <<r.buf>>)

set_vad(e, vad, err_code) ==
    LET state == IF vad THEN 1 ELSE 0
        r == ctl(e, SPEEX_SET_VAD, state, err_code)
    IN  Returned(r, <<>>)

get_vad(e, err_code) ==
    LET r == ctl(e, SPEEX_GET_VAD, 0, err_code)
    IN  Returned(r, <<r.buf # 0>>)

set_abr(e, abr, err_code) ==
    LET r == ctl(e, SPEEX_SET_ABR, abr, err_code)
    IN  Returned(r, <<>>)

get_abr(e, err_code) ==
    LET r == ctl(e, SPEEX_GET_ABR, 0, err_code)
    IN  Returned(r, <<r.buf>>)

set_quality(e, quality, err_code) ==
    LET r == ctl(e, SPEEX_SET_QUALITY, quality, err_code)
    IN  Returned(r, <<>>)

set_bitrate(e, bitrate, err_code) ==
    LET r == ctl(e, SPEEX_SET_BITRATE, bitrate, err_code)
    IN  Returned(r, <<>>)

get_bitrate_other_code(e, err_code) ==
    LET r == ctl(e, SPEEX_GET_SAMPLING_RATE, 0, err_code)
    IN  Returned(r, <<r.buf>>)

get_bitrate(e, err_code) ==
    LET r == ctl(e, SPEEX_GET_BITRATE, 0, err_code)
    IN  Returned(r, <<r.buf>>)

set_sampling_rate(e, samplingrate, err_code) ==
    LET r == ctl(e, SPEEX_SET_SAMPLING_RATE, samplingrate, err_code)
    IN  Returned(r, <<>>)

get_sampling_rate(e, err_code) ==
    LET r == ctl(e, SPEEX_GET_SAMPLING_RATE, 0, err_code)
    IN  Returned(r, <<r.buf>>)

reset_state(e, err_code) ==
    LET r == ctl(e, SPEEX_RESET_STATE, NULL, err_code)
    IN  Returned(r, <<>>)

set_submode_encoding(e, submode, err_code) ==
    LET state == IF submode THEN 1 ELSE 0
        r == ctl(e, SPEEX_SET_SUBMODE_ENCODING, state, err_code)
    IN  Returned(r, <<>>)

get_submode_encoding(e, err_code) ==
    LET r == ctl(e, SPEEX_GET_SUBMODE_ENCODING, 0, err_code)
    IN  Returned(r, <<r.buf # 0>>)

get_lookahead(e, err_code) ==
    LET r == ctl(e, SPEEX_GET_LOOKAHEAD, 0, err_code)
    IN  Returned(r, <<r.buf>>)

set_plc_tuning(e, tuning, err_code) ==
    LET r == ctl(e, SPEEX_SET_PLC_TUNING, tuning, err_code)
    IN  Returned(r, <<>>)

get_plc_tuning(e, err_code) ==
    LET r == ctl(e, SPEEX_GET_PLC_TUNING, 0, err_code)
    IN  Returned(r, <<r.buf>>)

set_vbr_max_bitrate(e, max_bitrate, err_code) ==
    LET r == ctl(e, SPEEX_SET_VBR_MAX_BITRATE, max_bitrate, err_code)
    IN  Returned(r, <<>>)

get_vbr_max_bitrate(e, err_code) ==
    LET r == ctl(e, SPEEX_GET_VBR_MAX_BITRATE, 0, err_code)
    IN  Returned(r, <<r.buf>>)

set_highpass(e, highpass, err_code) ==
    LET state == IF highpass THEN 1 ELSE 0
        r == ctl(e, SPEEX_SET_HIGHPASS, state, err_code)
    IN  Returned(r, <<>>)

get_highpass(e, err_code) ==
    LET r == ctl(e, SPEEX_GET_HIGHPASS, 0, err_code)
    IN  Returned(r, <<r.buf # 0>>)

BoolSetters == {"set_vbr", "set_vad", "set_submode_encoding", "set_highpass"}
BoolGetters == {"get_vbr", "get_vad", "get_submode_encoding", "get_highpass"}
I32Setters == {"set_abr", "set_quality", "set_bitrate", "set_sampling_rate",
               "set_plc_tuning", "set_vbr_max_bitrate"}
F32Setters == {"set_vbr_quality"}
ScalarGetters == {"get_frame_size", "get_vbr_quality", "get_abr", "get_bitrate",
                  "get_sampling_rate", "get_lookahead", "get_plc_tuning",
                  "get_vbr_max_bitrate"}
Setters == BoolSetters \cup I32Setters \cup F32Setters
Getters == BoolGetters \cup ScalarGetters

\* The named operations of the trait.
OpNames == Setters \cup Getters \cup {"reset_state"}

\* The arguments a named operation is given here (0 where it takes none).
ArgsOf(op) ==
    CASE op \in BoolSetters -> BOOLEAN
      [] op \in I32Setters -> I32Vals
      [] op \in F32Setters -> F32Vals
      [] OTHER -> {0}

\* A call of the trait method named op on the coder whose instance is e.
Invoke(op, e, arg, err_code) ==
    CASE op = "get_frame_size" -> get_frame_size(e, err_code)
      [] op = "set_vbr" -> set_vbr(e, arg, err_code)
      [] op = "get_vbr" -> get_vbr(e, err_code)
      [] op = "set_vbr_quality" -> set_vbr_quality(e, arg, err_code)
      [] op = "get_vbr_quality" -> get_vbr_quality(e, err_code)
      [] op = "set_vad" -> set_vad(e, arg, err_code)
      [] op = "get_vad" -> get_vad(e, err_code)
      [] op = "set_abr" -> set_abr(e, arg, err_code)
      [] op = "get_abr" -> get_abr(e, err_code)
      [] op = "set_quality" -> set_quality(e, arg, err_code)
      [] op = "set_bitrate" -> set_bitrate(e, arg, err_code)
      [] op = "get_bitrate" -> get_bitrate(e, err_code)
      [] op = "set_sampling_rate" -> set_sampling_rate(e, arg, err_code)
      [] op = "get_sampling_rate" -> get_sampling_rate(e, err_code)
      [] op = "reset_state" -> reset_state(e, err_code)
      [] op = "set_submode_encoding" -> set_submode_encoding(e, arg, err_code)
      [] op = "get_submode_encoding" -> get_submode_encoding(e, err_code)
      [] op = "get_lookahead" -> get_lookahead(e, err_code)
      [] op = "set_plc_tuning" -> set_plc_tuning(e, arg, err_code)
      [] op = "get_plc_tuning" -> get_plc_tuning(e, err_code)
      [] op = "set_vbr_max_bitrate" -> set_vbr_max_bitrate(e, arg, err_code)
      [] op = "get_vbr_max_bitrate" -> get_vbr_max_bitrate(e, err_code)
      [] op = "set_highpass" -> set_highpass(e, arg, err_code)
      [] op = "get_highpass" -> get_highpass(e, err_code)

---------------------------------------------------------------------------
(* Handles.  An engine instance is known by its address; an address is     *)
(* handed out once.  speex_encoder_init / speex_decoder_init answer a new  *)
(* address, or NULL when the engine cannot allocate.                       *)

Handles == 1..MaxHandles

Live(h) == h \in Handles /\ engine[h].alloc = "live"

FreeHandles == {h \in Handles : engine[h].alloc = "free"}

\* The pointers the engine's init may answer in this state.
InitResults ==
    {NULL} \cup (IF FreeHandles = {} THEN {}
                 ELSE {CHOOSE h \in FreeHandles : \A g \in FreeHandles : h <= g})

\* speex_lib_get_mode: the static descriptor of a mode, known by its modeID.
speex_lib_get_mode(mode) == [modeID |-> mode]

\* ModeId::get_mode
get_mode(self) == speex_lib_get_mode(self)

\* The engine after speex_encoder_init / speex_decoder_init answered ptr.
engine_init(kind, mode, ptr, owner) ==
    IF ptr = NULL THEN engine
    ELSE [engine EXCEPT ![ptr] = [alloc |-> "live", kind |-> kind, mode |-> mode.modeID,
                                  owner |-> owner, store |-> EngineDefaults]]

\* SpeexEncoderHandle::create: the engine call, and the pointer returned.
SpeexEncoderHandle_create(mode, ptr, owner) ==
    [engine |-> engine_init("enc", mode, ptr, owner), ptr |-> ptr]

\* SpeexDecoderHandle::create
SpeexDecoderHandle_create(mode, ptr, owner) ==
    [engine |-> engine_init("dec", mode, ptr, owner), ptr |-> ptr]

\* speex_encoder_destroy / speex_decoder_destroy (kind) on address ptr: a
\* live instance of that kind is released; anything else is a fault of the
\* engine (a null or dangling dereference, a double free).
engine_destroy(kind, ptr) ==
    LET ok == Live(ptr) /\ engine[ptr].kind = kind
    IN  [engine |-> IF ok THEN [engine EXCEPT ![ptr].alloc = "freed"] ELSE engine,
         destroys |-> IF ptr \in Handles
                        THEN [destroys EXCEPT ![ptr] =
                                [kinds |-> @.kinds \cup {kind},
                                 n |-> IF @.n = "none" THEN "once" ELSE "more"]]
                        ELSE destroys,
         faults |-> IF ok THEN faults ELSE faults \cup {[fn |-> "destroy", ptr |-> ptr]},
         ok |-> ok]

SpeexDecoderHandle_destroy_as_encoder(handle) == engine_destroy("enc", handle)

\* SpeexEncoderHandle::destroy
SpeexEncoderHandle_destroy(handle) == engine_destroy("enc", handle)

\* SpeexDecoderHandle::destroy
SpeexDecoderHandle_destroy(handle) == engine_destroy("dec", handle)

\* What may follow an engine fault: the process dies, or runs on.
AfterFault(ptr) == IF ptr = NULL THEN {"crashed"} ELSE {"crashed", status}

---------------------------------------------------------------------------
(* Coders: struct SpeexEncoder / SpeexDecoder { encoder_handle, mode }.     *)

NoCoder == [st |-> "none", kind |-> "none", encoder_handle |-> NULL, mode |-> [modeID |-> 0]]

NoCall == [via |-> "none", op |-> "none", request |-> 0, arg |-> <<>>, err_code |-> 0,
           outcome |-> "none", code |-> 0, ret |-> <<>>, handle |-> NULL, slot |-> 0,
           twin |-> <<>>]

NoShadow == [p \in Params |-> <<>>]

\* The parameter a named operation is about.
ParamOf(op) ==
    CASE op \in {"set_vbr", "get_vbr"} -> "vbr"
      [] op \in {"set_vbr_quality", "get_vbr_quality"} -> "vbr_quality"
      [] op \in {"set_vad", "get_vad"} -> "vad"
      [] op \in {"set_abr", "get_abr"} -> "abr"
      [] op \in {"set_quality"} -> "quality"
      [] op \in {"set_bitrate", "get_bitrate"} -> "bitrate"
      [] op \in {"set_sampling_rate", "get_sampling_rate"} -> "sampling_rate"
      [] op \in {"set_submode_encoding", "get_submode_encoding"} -> "submode_encoding"
      [] op \in {"set_plc_tuning", "get_plc_tuning"} -> "plc_tuning"
      [] op \in {"set_vbr_max_bitrate", "get_vbr_max_bitrate"} -> "vbr_max_bitrate"
      [] op \in {"set_highpass", "get_highpass"} -> "highpass"
      [] OTHER -> "none"

\* shadow after a control call: a completed named setter records its
\* argument; a parameter the engine changed otherwise is forgotten.
ShadowAfter(c, op, arg, outcome, old, new) ==
    [p \in Params |->
        IF op \in Setters /\ ParamOf(op) = p /\ outcome = "Ok" THEN <<arg>>
        ELSE IF new[p] # old[p] THEN <<>>
        ELSE shadow[c][p]]

\* The model follows a coder while at most MaxTouched of its parameters
\* were written.
WithinBound(store, shad) ==
    Cardinality({p \in Params : store[p] # EngineDefaults[p] \/ shad[p] # <<>>})
        <= MaxTouched

\* SpeexEncoder::new
SpeexEncoder_new(c, mode, ptr) ==
    LET m == get_mode(mode)
        r == SpeexEncoderHandle_create(m, ptr, "coder")
    IN  /\ status = "running"
        /\ coders[c].st = "none"
        /\ coders' = [coders EXCEPT ![c] = [st |-> "live", kind |-> "enc",
                                            encoder_handle |-> r.ptr, mode |-> m]]
        /\ engine' = r.engine
        /\ UNCHANGED <<status, destroys, faults, raw, stereo, heap, dyn, last, shadow,
                       sync>>

\* SpeexDecoder::new
SpeexDecoder_new(c, mode, ptr) ==
    LET m == get_mode(mode)
        r == SpeexDecoderHandle_create(m, ptr, "coder")
    IN  /\ status = "running"
        /\ coders[c].st = "none"
        /\ coders' = [coders EXCEPT ![c] = [st |-> "live", kind |-> "dec",
                                            encoder_handle |-> r.ptr, mode |-> m]]
        /\ engine' = r.engine
        /\ UNCHANGED <<status, destroys, faults, raw, stereo, heap, dyn, last, shadow,
                       sync>>

\* What a drop leaves behind: r is the result of the destroy call on ptr.
\* last and shadow describe the coder, and go with it.
Dropped(c, r, ptr) ==
    /\ coders' = [coders EXCEPT ![c].st = "dropped"]
    /\ engine' = r.engine
    /\ destroys' = r.destroys
    /\ faults' = r.faults
    /\ IF r.ok THEN status' = status ELSE status' \in AfterFault(ptr)
    /\ last' = NoCall
    /\ shadow' = [shadow EXCEPT ![c] = NoShadow]
    /\ UNCHANGED <<raw, stereo, heap, dyn, sync>>

\* Drop for SpeexEncoder: at scope exit, or while a panic unwinds.
Drop_SpeexEncoder(c) ==
    /\ status \in {"running", "panicked"}
    /\ coders[c].st = "live" /\ coders[c].kind = "enc"
    /\ Dropped(c, SpeexEncoderHandle_destroy(coders[c].encoder_handle),
               coders[c].encoder_handle)

\* Drop for SpeexDecoder
Drop_SpeexDecoder(c) ==
    /\ status \in {"running", "panicked"}
    /\ coders[c].st = "live" /\ coders[c].kind = "dec"
    /\ Dropped(c, SpeexDecoderHandle_destroy(coders[c].encoder_handle),
               coders[c].encoder_handle)

---------------------------------------------------------------------------
(* Control calls on the coder in slot c.                                   *)

\* The request codes issued through the low-level primitive here: setters,
\* getters and the reset among those the named operations use, and two
\* that no named operation uses.
IssuedCodes ==
    {SPEEX_SET_VBR, SPEEX_GET_VBR, SPEEX_SET_QUALITY, SPEEX_SET_BITRATE, SPEEX_GET_BITRATE,
     SPEEX_GET_FRAME_SIZE, SPEEX_RESET_STATE, 5, 99}

\* The buffer contents handed to the low-level primitive.
CtlBufs == {0, 7}

CanCall(c) ==
    /\ status = "running"
    /\ coders[c].st = "live"

\* A control call on a coder whose handle is no live instance: the engine
\* dereferences the pointer and the process dies.
CallOnDeadHandle(c) ==
    /\ CanCall(c)
    /\ ~Live(coders[c].encoder_handle)
    /\ status' = "crashed"
    /\ faults' = faults \cup {[fn |-> "ctl", ptr |-> coders[c].encoder_handle]}
    /\ UNCHANGED <<coders, engine, destroys, raw, stereo, heap, dyn, last, shadow, sync>>

\* unsafe fn ctl, called by the user with a request code and a buffer.
Ctl(c, request, buf, err_code) ==
    LET h == coders[c].encoder_handle
        r == ctl(engine[h], request, buf, err_code)
    IN  /\ CanCall(c)
        /\ Live(h)
        /\ WithinBound(r.store, ShadowAfter(c, "ctl", buf, r.res.tag, engine[h].store, r.store))
        /\ engine' = [engine EXCEPT ![h].store = r.store]
        /\ last' = [via |-> "ctl", op |-> "ctl", request |-> request, arg |-> <<>>,
                     err_code |-> err_code, outcome |-> r.res.tag, code |-> r.res.code,
                     ret |-> IF r.res.tag = "Ok" THEN <<r.buf>> ELSE <<>>,
                     handle |-> h, slot |-> c, twin |-> <<>>]
        /\ shadow' = [shadow EXCEPT
                         ![c] = ShadowAfter(c, "ctl", buf, r.res.tag, engine[h].store, r.store)]
        /\ status' = IF r.res.tag = "Panic" THEN "panicked" ELSE status
        /\ UNCHANGED <<coders, destroys, faults, raw, stereo, heap, dyn, sync>>

\* Named with the parameters kept in one place for all coders: the call
\* writes every live instance.
Named_shared_store(c, op, arg, err_code) ==
    LET h == coders[c].encoder_handle
        r == Invoke(op, engine[h], arg, err_code)
    IN  /\ CanCall(c)
        /\ Live(h)
        /\ WithinBound(r.store, ShadowAfter(c, op, arg, r.outcome, engine[h].store, r.store))
        /\ engine' = [k \in Handles |->
                        IF Live(k) THEN [engine[k] EXCEPT !.store = r.store] ELSE engine[k]]
        /\ last' = [via |-> "named", op |-> op, request |-> r.request, arg |-> <<>>,
                     err_code |-> err_code, outcome |-> r.outcome, code |-> 0,
                     ret |-> r.ret, handle |-> h, slot |-> c, twin |-> <<>>]
        /\ shadow' = [shadow EXCEPT
                         ![c] = ShadowAfter(c, op, arg, r.outcome, engine[h].store, r.store)]
        /\ status' = IF r.outcome = "Panic" THEN "panicked" ELSE status
        /\ UNCHANGED <<coders, destroys, faults, raw, stereo, heap, dyn, sync>>

\* A named operation of ControlFunctions, called on the coder in slot c.
Named(c, op, arg, err_code) ==
    LET h == coders[c].encoder_handle
        r == Invoke(op, engine[h], arg, err_code)
    IN  /\ CanCall(c)
        /\ Live(h)
        /\ WithinBound(r.store, ShadowAfter(c, op, arg, r.outcome, engine[h].store, r.store))
        /\ engine' = [engine EXCEPT ![h].store = r.store]
        /\ last' = [via |-> "named", op |-> op, request |-> r.request, arg |-> <<>>,
                     err_code |-> err_code, outcome |-> r.outcome, code |-> 0,
                     ret |-> r.ret, handle |-> h, slot |-> c, twin |-> <<>>]
        /\ shadow' = [shadow EXCEPT
                         ![c] = ShadowAfter(c, op, arg, r.outcome, engine[h].store, r.store)]
        /\ status' = IF r.outcome = "Panic" THEN "panicked" ELSE status
        /\ UNCHANGED <<coders, destroys, faults, raw, stereo, heap, dyn, sync>>

---------------------------------------------------------------------------
(* Raw handles: SpeexEncoderHandle::create / destroy and their decoder     *)
(* twins are public safe functions on raw pointers.  A raw pointer is      *)
(* Copy: the caller still holds it after it was destroyed.                 *)

\* The pointers of a kind the caller can name: those create returned to it,
\* and the null pointer.
Nameable(kind) == {r.ptr : r \in {x \in raw : x.kind = kind}} \cup {NULL}

\* SpeexEncoderHandle::create, called by the user.
RawEncoderCreate(mode, ptr) ==
    LET r == SpeexEncoderHandle_create(get_mode(mode), ptr, "raw")
    IN  /\ status = "running"
        /\ engine' = r.engine
        /\ raw' = IF r.ptr = NULL THEN raw ELSE raw \cup {[kind |-> "enc", ptr |-> r.ptr]}
        /\ UNCHANGED <<status, coders, destroys, faults, stereo, heap, dyn, last, shadow,
                       sync>>

\* SpeexDecoderHandle::create, called by the user.
RawDecoderCreate(mode, ptr) ==
    LET r == SpeexDecoderHandle_create(get_mode(mode), ptr, "raw")
    IN  /\ status = "running"
        /\ engine' = r.engine
        /\ raw' = IF r.ptr = NULL THEN raw ELSE raw \cup {[kind |-> "dec", ptr |-> r.ptr]}
        /\ UNCHANGED <<status, coders, destroys, faults, stereo, heap, dyn, last, shadow,
                       sync>>

RawDestroyed(r, handle) ==
    /\ status = "running"
    /\ engine' = r.engine
    /\ destroys' = r.destroys
    /\ faults' = r.faults
    /\ IF r.ok THEN status' = status ELSE status' \in AfterFault(handle)
    /\ UNCHANGED <<coders, raw, stereo, heap, dyn, last, shadow, sync>>

\* SpeexEncoderHandle::destroy, called by the user.
RawEncoderDestroy(handle) == RawDestroyed(SpeexEncoderHandle_destroy(handle), handle)

\* SpeexDecoderHandle::destroy, called by the user.
RawDecoderDestroy(handle) == RawDestroyed(SpeexDecoderHandle_destroy(handle), handle)

---------------------------------------------------------------------------
(* SpeexStereoState { backing }.  speex_stereo_state_init answers the      *)
(* address of a context the engine allocated (a positive number), or NULL. *)
(* backing is a copy of that context inside the Rust value; its address    *)
(* (a negative number) is no address the engine allocated.                 *)

Contexts == 1..MaxStereo

StereoDefaults == [balance |-> 10, e_ratio |-> 5, smooth_left |-> 10, smooth_right |-> 10]

NoStereo == [st |-> "none", backing |-> StereoDefaults, init_ptr |-> NULL, resets |-> 0]

\* &mut self.backing as *mut SysStereoState
BackingAddr(s) == 0 - s

\* The pointers speex_stereo_state_init may answer in this state.
StereoInitResults ==
    {NULL} \cup (IF \A k \in Contexts : heap.ctx[k] # "free" THEN {}
                 ELSE {CHOOSE k \in Contexts :
                          heap.ctx[k] = "free" /\ \A j \in Contexts : heap.ctx[j] = "free" => k <= j})

\* SpeexStereoState::new: the context init answered is copied into backing;
\* the pointer is not kept.  A null answer is dereferenced.
SpeexStereoState_new(s, ptr) ==
    /\ status = "running"
    /\ stereo[s].st = "none"
    /\ IF ptr = NULL
         THEN /\ status' = "crashed"
              /\ faults' = faults \cup {[fn |-> "stereo_new", ptr |-> NULL]}
              /\ UNCHANGED <<stereo, heap>>
         ELSE /\ stereo' = [stereo EXCEPT ![s] = [st |-> "live", backing |-> StereoDefaults,
                                                  init_ptr |-> ptr, resets |-> 0]]
              /\ heap' = [heap EXCEPT !.ctx[ptr] = "live"]
              /\ UNCHANGED <<status, faults>>
    /\ UNCHANGED <<coders, engine, destroys, raw, dyn, last, shadow, sync>>

\* SpeexStereoState::reset: speex_stereo_state_reset on the address of
\* backing, which writes the defaults there.
SpeexStereoState_reset(s) ==
    LET ptr == BackingAddr(s)
    IN  /\ status = "running"
        /\ stereo[s].st = "live"
        /\ stereo[s].resets < MaxResets
        /\ stereo' = [stereo EXCEPT ![s].backing = StereoDefaults, ![s].resets = @ + 1]
        /\ heap' = [heap EXCEPT !.calls = @ \cup {[fn |-> "reset", slot |-> s, addr |-> ptr]}]
        /\ UNCHANGED <<status, coders, engine, destroys, faults, raw, dyn, last, shadow,
                       sync>>

\* speex_stereo_state_destroy on address ptr: a live context of the engine
\* is released; any other address is an invalid free.
stereo_destroy(ptr) ==
    LET ok == ptr \in Contexts /\ heap.ctx[ptr] = "live"
    IN  [ctx |-> IF ok THEN [heap.ctx EXCEPT ![ptr] = "freed"] ELSE heap.ctx,
         faults |-> IF ok THEN faults
                    ELSE faults \cup {[fn |-> "stereo_destroy", ptr |-> ptr]},
         ok |-> ok]

\* Drop for SpeexStereoState: speex_stereo_state_destroy on the address of
\* backing.
Drop_SpeexStereoState(s) ==
    LET ptr == BackingAddr(s)
        r == stereo_destroy(ptr)
    IN  /\ status \in {"running", "panicked"}
        /\ stereo[s].st = "live"
        /\ stereo' = [stereo EXCEPT ![s].st = "dropped"]
        /\ heap' = [ctx |-> r.ctx,
                     calls |-> heap.calls \cup {[fn |-> "destroy", slot |-> s, addr |-> ptr]}]
        /\ faults' = r.faults
        /\ IF r.ok THEN status' = status ELSE status' \in AfterFault(ptr)
        /\ UNCHANGED <<coders, engine, destroys, raw, dyn, last, shadow, sync>>

---------------------------------------------------------------------------
(* The dynamic facade: enum DynamicEncoder / DynamicDecoder { Nb(coder),   *)
(* Wb(coder), Uwb(coder) }.  dyn is one such value: its tag, the coder it  *)
(* contains, and the tag it was constructed with.                          *)

NoDyn == [st |-> "none", kind |-> "none", tag |-> "none", chosen |-> "none",
          inner |-> [encoder_handle |-> NULL, mode |-> [modeID |-> 0]]]

\* The variant that holds a coder of a mode.
TagOf(mode) ==
    CASE mode = SPEEX_MODEID_NB -> "Nb"
      [] mode = SPEEX_MODEID_WB -> "Wb"
      [] mode = SPEEX_MODEID_UWB -> "Uwb"

\* macro dynamic_mapping: match on the variant and bind the coder it
\* contains, on which the action is then evaluated.
dynamic_mapping(name) ==
    CASE name.tag = "Nb" -> name.inner
      [] name.tag = "Wb" -> name.inner
      [] name.tag = "Uwb" -> name.inner

\* The engine instance of a coder.
InstanceOf(inner) == engine[inner.encoder_handle]

\* What a forwarded call leaves: the facade, the handle the call went to,
\* and the result r of the coder's operation.
Forwarded(self, inner, r) ==
    [self |-> self, handle |-> inner.encoder_handle, outcome |-> r.outcome, ret |-> r.ret,
     request |-> r.request, store |-> r.store]

\* The coder in slot 1, where its handle is live; else the facade's own.
OtherCoder(self) ==
    IF Live(coders[1].encoder_handle)
    THEN [encoder_handle |-> coders[1].encoder_handle, mode |-> coders[1].mode]
    ELSE self.inner

\* shared_functions with every call forwarded to a coder the facade does
\* not contain.
shared_functions_other_coder(self, op, arg, err_code) ==
    Forwarded(self, OtherCoder(self), Invoke(op, InstanceOf(OtherCoder(self)), arg, err_code))

\* shared_functions with set_quality forwarded to set_abr.
shared_functions_other_operation(self, op, arg, err_code) ==
    IF op = "set_quality"
    THEN Forwarded(self, self.inner, set_abr(InstanceOf(self.inner), arg, err_code))
    ELSE Forwarded(self, self.inner, Invoke(op, InstanceOf(self.inner), arg, err_code))

\* macro shared_functions: the method named op of the facade.
shared_functions(self, op, arg, err_code) ==
    CASE op = "get_frame_size" ->
            LET inner == dynamic_mapping(self)
            IN  Forwarded(self, inner, get_frame_size(InstanceOf(inner), err_code))
      [] op = "set_vbr" ->
            LET inner == dynamic_mapping(self)
            IN  Forwarded(self, inner, set_vbr(InstanceOf(inner), arg, err_code))
      [] op = "get_vbr" ->
            LET inner == dynamic_mapping(self)
            IN  Forwarded(self, inner, get_vbr(InstanceOf(inner), err_code))
      [] op = "set_vbr_quality" ->
            LET inner == dynamic_mapping(self)
            IN  Forwarded(self, inner, set_vbr_quality(InstanceOf(inner), arg, err_code))
      [] op = "get_vbr_quality" ->
            LET inner == dynamic_mapping(self)
            IN  Forwarded(self, inner, get_vbr_quality(InstanceOf(inner), err_code))
      [] op = "set_vad" ->
            LET inner == dynamic_mapping(self)
            IN  Forwarded(self, inner, set_vad(InstanceOf(inner), arg, err_code))
      [] op = "get_vad" ->
            LET inner == dynamic_mapping(self)
            IN  Forwarded(self, inner, get_vad(InstanceOf(inner), err_code))
      [] op = "set_abr" ->
            LET inner == dynamic_mapping(self)
            IN  Forwarded(self, inner, set_abr(InstanceOf(inner), arg, err_code))
      [] op = "get_abr" ->
            LET inner == dynamic_mapping(self)
            IN  Forwarded(self, inner, get_abr(InstanceOf(inner), err_code))
      [] op = "set_quality" ->
            LET inner == dynamic_mapping(self)
            IN  Forwarded(self, inner, set_quality(InstanceOf(inner), arg, err_code))
      [] op = "set_bitrate" ->
            LET inner == dynamic_mapping(self)
            IN  Forwarded(self, inner, set_bitrate(InstanceOf(inner), arg, err_code))
      [] op = "get_bitrate" ->
            LET inner == dynamic_mapping(self)
            IN  Forwarded(self, inner, get_bitrate(InstanceOf(inner), err_code))
      [] op = "set_sampling_rate" ->
            LET inner == dynamic_mapping(self)
            IN  Forwarded(self, inner, set_sampling_rate(InstanceOf(inner), arg, err_code))
      [] op = "get_sampling_rate" ->
            LET inner == dynamic_mapping(self)
            IN  Forwarded(self, inner, get_sampling_rate(InstanceOf(inner), err_code))
      [] op = "reset_state" ->
            LET inner == dynamic_mapping(self)
            IN  Forwarded(self, inner, reset_state(InstanceOf(inner), err_code))
      [] op = "set_submode_encoding" ->
            LET inner == dynamic_mapping(self)
            IN  Forwarded(self, inner, set_submode_encoding(InstanceOf(inner), arg, err_code))
      [] op = "get_submode_encoding" ->
            LET inner == dynamic_mapping(self)
            IN  Forwarded(self, inner, get_submode_encoding(InstanceOf(inner), err_code))
      [] op = "get_lookahead" ->
            LET inner == dynamic_mapping(self)
            IN  Forwarded(self, inner, get_lookahead(InstanceOf(inner), err_code))
      [] op = "set_plc_tuning" ->
            LET inner == dynamic_mapping(self)
            IN  Forwarded(self, inner, set_plc_tuning(InstanceOf(inner), arg, err_code))
      [] op = "get_plc_tuning" ->
            LET inner == dynamic_mapping(self)
            IN  Forwarded(self, inner, get_plc_tuning(InstanceOf(inner), err_code))
      [] op = "set_vbr_max_bitrate" ->
            LET inner == dynamic_mapping(self)
            IN  Forwarded(self, inner, set_vbr_max_bitrate(InstanceOf(inner), arg, err_code))
      [] op = "get_vbr_max_bitrate" ->
            LET inner == dynamic_mapping(self)
            IN  Forwarded(self, inner, get_vbr_max_bitrate(InstanceOf(inner), err_code))
      [] op = "set_highpass" ->
            LET inner == dynamic_mapping(self)
            IN  Forwarded(self, inner, set_highpass(InstanceOf(inner), arg, err_code))
      [] op = "get_highpass" ->
            LET inner == dynamic_mapping(self)
            IN  Forwarded(self, inner, get_highpass(InstanceOf(inner), err_code))

\* The coder in slot 1 is a new coder of this kind and mode, and ptr is an
\* instance: the facade built on ptr and that coder start out alike.
Paired(kind, m, ptr) ==
    /\ ptr # NULL
    /\ coders[1].st = "live" /\ coders[1].kind = kind /\ coders[1].mode = m
    /\ Live(coders[1].encoder_handle)
    /\ engine[coders[1].encoder_handle].store = EngineDefaults

\* The facade over a new encoder of a mode.
DynamicEncoder_new(mode, ptr) ==
    LET m == get_mode(mode)
        r == SpeexEncoderHandle_create(m, ptr, "dyn")
    IN  /\ status = "running"
        /\ dyn.st = "none"
        /\ dyn' = [st |-> "live", kind |-> "enc", tag |-> TagOf(mode), chosen |-> TagOf(mode),
                    inner |-> [encoder_handle |-> r.ptr, mode |-> m]]
        /\ engine' = r.engine
        /\ sync' = Paired("enc", m, r.ptr)
        /\ UNCHANGED <<status, coders, destroys, faults, raw, stereo, heap, last, shadow>>

\* The facade over a new decoder of a mode.
DynamicDecoder_new(mode, ptr) ==
    LET m == get_mode(mode)
        r == SpeexDecoderHandle_create(m, ptr, "dyn")
    IN  /\ status = "running"
        /\ dyn.st = "none"
        /\ dyn' = [st |-> "live", kind |-> "dec", tag |-> TagOf(mode), chosen |-> TagOf(mode),
                    inner |-> [encoder_handle |-> r.ptr, mode |-> m]]
        /\ engine' = r.engine
        /\ sync' = Paired("dec", m, r.ptr)
        /\ UNCHANGED <<status, coders, destroys, faults, raw, stereo, heap, last, shadow>>

DynCanCall ==
    /\ status = "running"
    /\ dyn.st = "live"

\* The facade and the coder in slot 1 run the same operations.
InStep == sync /\ coders[1].st = "live"

\* A facade method on a facade whose coder holds no live instance.
DynCallOnDeadHandle ==
    /\ DynCanCall
    /\ ~Live(dyn.inner.encoder_handle)
    /\ status' = "crashed"
    /\ faults' = faults \cup {[fn |-> "ctl", ptr |-> dyn.inner.encoder_handle]}
    /\ UNCHANGED <<coders, engine, destroys, raw, stereo, heap, dyn, last, shadow, sync>>

\* A method of the facade, called on the facade alone.
FacadeOp(op, arg, err_code) ==
    LET r == shared_functions(dyn, op, arg, err_code)
    IN  /\ DynCanCall
        /\ Live(dyn.inner.encoder_handle)
        /\ ~InStep
        /\ WithinBound(r.store, NoShadow)
        /\ engine' = [engine EXCEPT ![r.handle].store = r.store]
        /\ dyn' = [dyn EXCEPT !.tag = r.self.tag, !.inner = r.self.inner]
        /\ last' = [via |-> "facade", op |-> op, request |-> r.request, arg |-> <<>>,
                     err_code |-> err_code, outcome |-> r.outcome, code |-> 0,
                     ret |-> r.ret, handle |-> r.handle, slot |-> 0, twin |-> <<>>]
        /\ status' = IF r.outcome = "Panic" THEN "panicked" ELSE status
        /\ UNCHANGED <<coders, destroys, faults, raw, stereo, heap, shadow, sync>>

\* The same method with the same argument, called on the facade and on the
\* coder in slot 1; the engine answers both calls alike.
Lockstep(op, arg, err_code) ==
    LET h == coders[1].encoder_handle
        r == shared_functions(dyn, op, arg, err_code)
        d == Invoke(op, engine[h], arg, err_code)
    IN  /\ DynCanCall
        /\ Live(dyn.inner.encoder_handle)
        /\ InStep
        /\ WithinBound(r.store, NoShadow)
        /\ engine' = [engine EXCEPT ![r.handle].store = r.store, ![h].store = d.store]
        /\ dyn' = [dyn EXCEPT !.tag = r.self.tag, !.inner = r.self.inner]
        /\ last' = [via |-> "both", op |-> op, request |-> r.request, arg |-> <<>>,
                     err_code |-> err_code, outcome |-> r.outcome, code |-> 0,
                     ret |-> r.ret, handle |-> r.handle, slot |-> 0,
                     twin |-> <<[outcome |-> d.outcome, ret |-> d.ret,
                                 request |-> d.request]>>]
        /\ status' = IF r.outcome = "Panic" THEN "panicked" ELSE status
        /\ UNCHANGED <<coders, destroys, faults, raw, stereo, heap, shadow, sync>>

\* What the drop of the facade leaves: its coder is dropped with it, and
\* last with the coder.
DynDropped(r, ptr) ==
    /\ dyn' = [dyn EXCEPT !.st = "dropped"]
    /\ engine' = r.engine
    /\ destroys' = r.destroys
    /\ faults' = r.faults
    /\ IF r.ok THEN status' = status ELSE status' \in AfterFault(ptr)
    /\ last' = NoCall
    /\ UNCHANGED <<coders, raw, stereo, heap, shadow, sync>>

Drop_DynamicEncoder ==
    /\ status \in {"running", "panicked"}
    /\ dyn.st = "live" /\ dyn.kind = "enc"
    /\ DynDropped(SpeexEncoderHandle_destroy(dyn.inner.encoder_handle),
                  dyn.inner.encoder_handle)

Drop_DynamicDecoder ==
    /\ status \in {"running", "panicked"}
    /\ dyn.st = "live" /\ dyn.kind = "dec"
    /\ DynDropped(SpeexDecoderHandle_destroy(dyn.inner.encoder_handle),
                  dyn.inner.encoder_handle)

---------------------------------------------------------------------------
(* The mode registry and the selector conversions: ModeId::get_mode,       *)
(* ModeId::get_frame_size, and From<i32> for ModeId, NbSubmodeId,          *)
(* WbSubmodeId, UwbSubmodeId.                                              *)

\* The discriminant of each variant, as the enums declare it.
ModeId_discriminant(variant) ==
    CASE variant = "NarrowBand" -> SPEEX_MODEID_NB
      [] variant = "WideBand" -> SPEEX_MODEID_WB
      [] variant = "UltraWideBand" -> SPEEX_MODEID_UWB

NbSubmodeId_discriminant(variant) ==
    CASE variant = "VocoderLike" -> 1
      [] variant = "ExtremeLow" -> 8
      [] variant = "VeryLow" -> 2
      [] variant = "Low" -> 3
      [] variant = "Medium" -> 4
      [] variant = "High" -> 5
      [] variant = "VeryHigh" -> 6
      [] variant = "ExtremeHigh" -> 7

WbSubmodeId_discriminant(variant) ==
    CASE variant = "NoQuantize" -> 1
      [] variant = "QuantizedLow" -> 2
      [] variant = "QuantizedMedium" -> 3
      [] variant = "QuantizedHigh" -> 4

UwbSubmodeId_discriminant(variant) ==
    CASE variant = "Only" -> WbSubmodeId_discriminant("NoQuantize")

\* What a conversion gives: a variant, or the panic of its last arm.
Variant(variant) == [tag |-> "Ok", variant |-> variant]
InvalidId == [tag |-> "Panic", variant |-> "none"]

\* impl From<i32> for ModeId
ModeId_from(value) ==
    CASE value = SPEEX_MODEID_NB -> Variant("NarrowBand")
      [] value = SPEEX_MODEID_WB -> Variant("WideBand")
      [] value = SPEEX_MODEID_UWB -> Variant("UltraWideBand")
      [] OTHER -> InvalidId

\* NbSubmodeId::from with every integer it does not name mapped to a variant.
NbSubmodeId_from_defaulting(value) ==
    CASE value = 1 -> Variant("VocoderLike")
      [] value = 2 -> Variant("VeryLow")
      [] value = 3 -> Variant("Low")
      [] value = 4 -> Variant("Medium")
      [] value = 5 -> Variant("High")
      [] value = 6 -> Variant("VeryHigh")
      [] value = 7 -> Variant("ExtremeHigh")
      [] value = 8 -> Variant("ExtremeLow")
      [] OTHER -> Variant("VocoderLike")

\* impl From<i32> for NbSubmodeId
NbSubmodeId_from(value) ==
    CASE value = 1 -> Variant("VocoderLike")
      [] value = 2 -> Variant("VeryLow")
      [] value = 3 -> Variant("Low")
      [] value = 4 -> Variant("Medium")
      [] value = 5 -> Variant("High")
      [] value = 6 -> Variant("VeryHigh")
      [] value = 7 -> Variant("ExtremeHigh")
      [] value = 8 -> Variant("ExtremeLow")
      [] OTHER -> InvalidId

\* impl From<i32> for WbSubmodeId
WbSubmodeId_from(value) ==
    CASE value = 1 -> Variant("NoQuantize")
      [] value = 2 -> Variant("QuantizedLow")
      [] value = 3 -> Variant("QuantizedMedium")
      [] value = 4 -> Variant("QuantizedHigh")
      [] OTHER -> InvalidId

\* impl From<i32> for UwbSubmodeId
UwbSubmodeId_from(value) ==
    CASE value = 1 -> Variant("Only")
      [] OTHER -> InvalidId

Enums == {"ModeId", "NbSubmodeId", "WbSubmodeId", "UwbSubmodeId"}

\* T::from(value) for the enum named T.
From(enum, value) ==
    CASE enum = "ModeId" -> ModeId_from(value)
      [] enum = "NbSubmodeId" -> NbSubmodeId_from(value)
      [] enum = "WbSubmodeId" -> WbSubmodeId_from(value)
      [] enum = "UwbSubmodeId" -> UwbSubmodeId_from(value)

\* variant as i32 for a variant of the enum named T.
Discriminant(enum, variant) ==
    CASE enum = "ModeId" -> ModeId_discriminant(variant)
      [] enum = "NbSubmodeId" -> NbSubmodeId_discriminant(variant)
      [] enum = "WbSubmodeId" -> WbSubmodeId_discriminant(variant)
      [] enum = "UwbSubmodeId" -> UwbSubmodeId_discriminant(variant)

\* The integers handed to the conversions.
SelectorVals == (0 - MaxSelector)..MaxSelector

\* A call of T::from(value).
Convert(enum, value) ==
    LET r == From(enum, value)
    IN  /\ status = "running"
        /\ last' = [NoCall EXCEPT !.via = "from", !.op = enum, !.arg = <<value>>,
                                   !.outcome = r.tag,
                                   !.ret = IF r.tag = "Ok" THEN <<r.variant>> ELSE <<>>]
        /\ status' = IF r.tag = "Panic" THEN "panicked" ELSE status
        /\ UNCHANGED <<coders, engine, destroys, faults, raw, stereo, heap, dyn, shadow,
                       sync>>

\* The address of the engine's descriptor of a mode (not null).
ModeAddr(mode) == mode + 1

\* What speex_lib_get_mode may answer for a mode: its descriptor, or null.
LookupResults(mode) == {NULL, ModeAddr(mode)}

\* What speex_mode_query may answer: 0, or -1 for a query it does not serve.
QueryResults == {0, -1}

\* What `&*ptr` of a null ptr may do: the build stops there (a null check
\* compiled in), or goes on with a null reference.
AfterNullReference == {"crashed", "running"}

\* ModeId::get_mode, where speex_lib_get_mode answered ptr.
ModeId_get_mode(mode, ptr) ==
    /\ status = "running"
    /\ \E after \in (IF ptr = NULL THEN AfterNullReference ELSE {"running"}) :
          /\ status' = after
          /\ last' = [NoCall EXCEPT !.via = "mode", !.op = "get_mode", !.arg = <<mode>>,
                                     !.outcome = IF after = "running" THEN "Ok" ELSE "Fault",
                                     !.ret = IF after = "running" THEN <<ptr>> ELSE <<>>,
                                     !.handle = ptr]
    /\ faults' = IF ptr = NULL THEN faults \cup {[fn |-> "get_mode", ptr |-> ptr]} ELSE faults
    /\ UNCHANGED <<coders, engine, destroys, raw, stereo, heap, dyn, shadow, sync>>

\* ModeId::get_frame_size, where speex_lib_get_mode answered ptr and
\* speex_mode_query answered err_code: the answer is not looked at, and
\* frame_size is returned as the query left it.  A null ptr is dereferenced
\* by the engine.
ModeId_get_frame_size(mode, ptr, err_code) ==
    LET frame_size == IF err_code = 0 THEN FrameSizeOf(mode) ELSE 0
    IN  /\ status = "running"
        /\ IF ptr = NULL
             THEN /\ status' \in AfterFault(ptr)
                  /\ faults' = faults \cup {[fn |-> "mode_query", ptr |-> ptr]}
                  /\ last' = [NoCall EXCEPT !.via = "mode", !.op = "get_frame_size",
                                             !.arg = <<mode>>, !.outcome = "Fault",
                                             !.handle = ptr]
             ELSE /\ status' = status
                  /\ faults' = faults
                  /\ last' = [NoCall EXCEPT !.via = "mode", !.op = "get_frame_size",
                                             !.arg = <<mode>>, !.err_code = err_code,
                                             !.outcome = "Ok", !.ret = <<frame_size>>,
                                             !.handle = ptr]
        /\ UNCHANGED <<coders, engine, destroys, raw, stereo, heap, dyn, shadow, sync>>

---------------------------------------------------------------------------
(* Spec: one coder, constructed, driven through the named operations,     *)
(* dropped.                                                                *)

CoderSlots == 1..MaxCoders
StereoSlots == 1..MaxStereo

Init ==
    /\ status = "running"
    /\ coders = [c \in CoderSlots |-> NoCoder]
    /\ engine = [h \in Handles |-> FreeInstance]
    /\ destroys = [h \in Handles |-> [kinds |-> {}, n |-> "none"]]
    /\ faults = {}
    /\ raw = {}
    /\ stereo = [s \in StereoSlots |-> NoStereo]
    /\ heap = [ctx |-> [k \in Contexts |-> "free"], calls |-> {}]
    /\ dyn = NoDyn
    /\ last = NoCall
    /\ shadow = [c \in CoderSlots |-> NoShadow]
    /\ sync = FALSE

Next ==
    \/ \E mode \in ModeId, ptr \in InitResults : SpeexEncoder_new(1, mode, ptr)
    \/ \E mode \in ModeId, ptr \in InitResults : SpeexDecoder_new(1, mode, ptr)
    \/ \E op \in OpNames : \E arg \in ArgsOf(op), err_code \in ErrCodes :
          Named(1, op, arg, err_code)
    \/ CallOnDeadHandle(1)
    \/ Drop_SpeexEncoder(1)
    \/ Drop_SpeexDecoder(1)

Spec == Init /\ [][Next]_vars

---------------------------------------------------------------------------
(* SpecCtl: one coder driven through the low-level primitive alone.        *)

NextCtl ==
    \/ \E mode \in ModeId, ptr \in InitResults : SpeexEncoder_new(1, mode, ptr)
    \/ \E mode \in ModeId, ptr \in InitResults : SpeexDecoder_new(1, mode, ptr)
    \/ \E request \in IssuedCodes, buf \in CtlBufs, err_code \in ErrCodes :
          Ctl(1, request, buf, err_code)
    \/ CallOnDeadHandle(1)
    \/ Drop_SpeexEncoder(1)
    \/ Drop_SpeexDecoder(1)

SpecCtl == Init /\ [][NextCtl]_vars

---------------------------------------------------------------------------
(* SpecLife: coders and raw handles are constructed, used and destroyed in *)
(* any order.                                                              *)

\* The named operations a coder is used through here.
UseOps == {"get_frame_size"}

\* The engine's answers to them here.
UseErrCodes == {0, -1}

NextLife ==
    \/ \E c \in CoderSlots, mode \in ModeId, ptr \in InitResults :
          SpeexEncoder_new(c, mode, ptr)
    \/ \E c \in CoderSlots, mode \in ModeId, ptr \in InitResults :
          SpeexDecoder_new(c, mode, ptr)
    \/ \E c \in CoderSlots, op \in UseOps : \E arg \in ArgsOf(op), err_code \in UseErrCodes :
          Named(c, op, arg, err_code)
    \/ \E c \in CoderSlots : CallOnDeadHandle(c)
    \/ \E c \in CoderSlots : Drop_SpeexEncoder(c)
    \/ \E c \in CoderSlots : Drop_SpeexDecoder(c)
    \/ \E mode \in ModeId, ptr \in InitResults : RawEncoderCreate(mode, ptr)
    \/ \E mode \in ModeId, ptr \in InitResults : RawDecoderCreate(mode, ptr)
    \/ \E handle \in Nameable("enc") : RawEncoderDestroy(handle)
    \/ \E handle \in Nameable("dec") : RawDecoderDestroy(handle)

SpecLife == Init /\ [][NextLife]_vars

---------------------------------------------------------------------------
(* SpecStereo: stereo states are constructed, reset and dropped.           *)

NextStereo ==
    \/ \E s \in StereoSlots, ptr \in StereoInitResults : SpeexStereoState_new(s, ptr)
    \/ \E s \in StereoSlots : SpeexStereoState_reset(s)
    \/ \E s \in StereoSlots : Drop_SpeexStereoState(s)

SpecStereo == Init /\ [][NextStereo]_vars

---------------------------------------------------------------------------
(* SpecDyn: a coder is constructed, then a facade of the coder's mode;     *)
(* where the two are of one kind they are driven in step, else the facade  *)
(* alone.  The coder outlives the facade.                                  *)

\* The engine's answers to the operations here.
DynErrCodes == {0, -1}

NextDyn ==
    \/ \E mode \in ModeId, ptr \in InitResults \ {NULL} :
          dyn.st = "none" /\ SpeexEncoder_new(1, mode, ptr)
    \/ \E mode \in ModeId, ptr \in InitResults \ {NULL} :
          dyn.st = "none" /\ SpeexDecoder_new(1, mode, ptr)
    \/ \E ptr \in InitResults :
          coders[1].st = "live" /\ DynamicEncoder_new(coders[1].mode.modeID, ptr)
    \/ \E ptr \in InitResults :
          coders[1].st = "live" /\ DynamicDecoder_new(coders[1].mode.modeID, ptr)
    \/ \E op \in OpNames : \E arg \in ArgsOf(op), err_code \in DynErrCodes :
          FacadeOp(op, arg, err_code)
    \/ \E op \in OpNames : \E arg \in ArgsOf(op), err_code \in DynErrCodes :
          Lockstep(op, arg, err_code)
    \/ DynCallOnDeadHandle
    \/ Drop_DynamicEncoder
    \/ Drop_DynamicDecoder
    \/ dyn.st # "live" /\ Drop_SpeexEncoder(1)
    \/ dyn.st # "live" /\ Drop_SpeexDecoder(1)

SpecDyn == Init /\ [][NextDyn]_vars

---------------------------------------------------------------------------
(* SpecMode: the mode registry is queried and integers are converted to    *)
(* selectors.                                                              *)

NextMode ==
    \/ \E enum \in Enums, value \in SelectorVals : Convert(enum, value)
    \/ \E mode \in ModeId : \E ptr \in LookupResults(mode) : ModeId_get_mode(mode, ptr)
    \/ \E mode \in ModeId : \E ptr \in LookupResults(mode), err_code \in QueryResults :
          ModeId_get_frame_size(mode, ptr, err_code)

SpecMode == Init /\ [][NextMode]_vars

---------------------------------------------------------------------------
(* SpecPair: MaxObjects values (coders, stereo states, or both) are        *)
(* constructed, driven and dropped in any interleaving.                    *)

\* The two coder slots.
PairSlots == {1, 2}

\* The named operations the two coders are driven through here: a setter
\* and the reset, which change the engine instance.
PairOps == {"set_quality", "reset_state"}

InitPair ==
    /\ status = "running"
    /\ coders = [c \in PairSlots |-> NoCoder]
    /\ engine = [h \in Handles |-> FreeInstance]
    /\ destroys = [h \in Handles |-> [kinds |-> {}, n |-> "none"]]
    /\ faults = {}
    /\ raw = {}
    /\ stereo = [s \in StereoSlots |-> NoStereo]
    /\ heap = [ctx |-> [k \in Contexts |-> "free"], calls |-> {}]
    /\ dyn = NoDyn
    /\ last = NoCall
    /\ shadow = [c \in PairSlots |-> NoShadow]
    /\ sync = FALSE

\* The values constructed so far, dropped ones among them.
Constructed ==
    {<<"coder", c>> : c \in {x \in PairSlots : coders[x].st # "none"}}
        \cup {<<"stereo", s>> : s \in {x \in StereoSlots : stereo[x].st # "none"}}

\* Another value may be constructed.
MayConstruct == Cardinality(Constructed) < MaxObjects

\* The modes the coders are constructed with here.
PairModes == {SPEEX_MODEID_NB, SPEEX_MODEID_UWB}

\* Some operation on the coder in slot c.
OnCoder(c) ==
    \/ \E mode \in PairModes, ptr \in InitResults : SpeexEncoder_new(c, mode, ptr)
    \/ \E mode \in PairModes, ptr \in InitResults : SpeexDecoder_new(c, mode, ptr)
    \/ \E op \in PairOps : \E arg \in ArgsOf(op), err_code \in UseErrCodes :
          Named(c, op, arg, err_code)
    \/ CallOnDeadHandle(c)
    \/ Drop_SpeexEncoder(c)
    \/ Drop_SpeexDecoder(c)

\* Some operation on the stereo state in slot s.
OnStereo(s) ==
    \/ \E ptr \in StereoInitResults : SpeexStereoState_new(s, ptr)
    \/ SpeexStereoState_reset(s)
    \/ Drop_SpeexStereoState(s)

NextPair ==
    \/ \E c \in PairSlots : (coders[c].st # "none" \/ MayConstruct) /\ OnCoder(c)
    \/ \E s \in StereoSlots : (stereo[s].st # "none" \/ MayConstruct) /\ OnStereo(s)

SpecPair == InitPair /\ [][NextPair]_vars

---------------------------------------------------------------------------
(* Claims about the control plane.                                         *)

\* The store of the engine instance behind the coder in slot 1.
StoreOf1 == engine[coders[1].encoder_handle].store

Driven1 == coders[1].st = "live" /\ Live(coders[1].encoder_handle)

\* C1 (SpecCtl): the low-level primitive translates the engine's answer 0 to
\* Ok, -1 to UnknownRequest carrying exactly the request code that was
\* issued, and -2 to InvalidParameter, whatever the request code.
C1_ErrorTranslation ==
    last.via = "ctl" =>
        /\ (last.err_code = 0 => last.outcome = "Ok")
        /\ (last.err_code = -1 =>
                last.outcome = "UnknownRequest" /\ last.code = last.request)
        /\ (last.err_code = -2 => last.outcome = "InvalidParameter")
        /\ (last.outcome \in {"Ok", "UnknownRequest", "InvalidParameter"}
                => status = "running")

\* C1 witness: an unused request code was issued, the engine answered -1 and
\* the caller got UnknownRequest(99).
C1_Witness ==
    /\ last.via = "ctl" /\ last.request = 99 /\ last.err_code = -1
    /\ last.outcome = "UnknownRequest" /\ last.code = 99

\* C2 (SpecCtl): an engine answer other than 0, -1, -2 makes check_error
\* panic: the caller gets neither Ok nor a ControlError, the engine instance
\* is left as it was, and the program no longer runs on (it unwinds).
C2_OtherCodePanics ==
    (last.via = "ctl" /\ last.err_code \notin {0, -1, -2}) =>
        /\ last.outcome = "Panic"
        /\ last.ret = <<>>
        /\ status = "panicked"

\* C2 witness: the engine answered 1 (and, in another run, -3) and the call
\* panicked.
C2_Witness ==
    last.via = "ctl" /\ last.err_code = 1 /\ last.outcome = "Panic" /\ status = "panicked"

\* C6 as stated (Spec): every named operation always succeeds, whatever the
\* low-level primitive produced.
C6_AlwaysSucceeds ==
    last.via = "named" => last.outcome = "Ok"

\* C6 amended (Spec): a named operation never hands UnknownRequest or
\* InvalidParameter to its caller as a value; it returns exactly when the
\* primitive gave Ok (the engine answered 0), and otherwise it panics
\* (unwrap) and returns nothing.
C6_OkOrPanic ==
    last.via = "named" =>
        /\ last.outcome \in {"Ok", "Panic"}
        /\ (last.outcome = "Ok" <=> last.err_code = 0)
        /\ (last.outcome = "Ok" => status = "running")
        /\ (last.outcome = "Panic" => status = "panicked" /\ last.ret = <<>>)

\* C6 witness: the engine answered -1 to a named operation, which panicked.
C6_Witness ==
    /\ last.via = "named" /\ last.op = "set_vbr" /\ last.err_code = -1
    /\ last.outcome = "Panic" /\ status = "panicked"

BoolParams == {"vbr", "vad", "submode_encoding", "highpass"}

\* C7 (Spec): for vbr, vad, submode_encoding and highpass, after set(x),
\* repeated or not, get() returns x: the setter stores 1 for true and 0 for
\* false, and the getter answers true exactly when the stored integer is
\* not 0.
C7_BoolRoundTrip ==
    Driven1 =>
        /\ \A p \in BoolParams :
              shadow[1][p] # <<>> => StoreOf1[p] = (IF shadow[1][p][1] THEN 1 ELSE 0)
        /\ (last.via = "named" /\ last.op \in BoolGetters /\ last.outcome = "Ok") =>
              /\ last.ret = <<StoreOf1[ParamOf(last.op)] # 0>>
              /\ shadow[1][ParamOf(last.op)] # <<>> => last.ret = shadow[1][ParamOf(last.op)]

\* C7 witness: get_vbr returned true after set_vbr(true).
C7_Witness ==
    /\ Driven1 /\ last.via = "named" /\ last.op = "get_vbr" /\ last.outcome = "Ok"
    /\ shadow[1]["vbr"] = <<TRUE>> /\ last.ret = <<TRUE>>

\* The scalar parameters with a documented domain.
DocScalars == {"vbr_quality", "quality", "plc_tuning", "abr", "bitrate", "sampling_rate",
               "vbr_max_bitrate"}

\* The named getters of a parameter.
GettersOf(p) == {g \in Getters : ParamOf(g) = p}

\* Whether the value v set for parameter p can be read back now: some named
\* getter of p, answered 0 by the engine, returns v.
ReadsBack(p, v) ==
    \E g \in GettersOf(p) : Invoke(g, engine[coders[1].encoder_handle], 0, 0).ret = <<v>>

\* C8 as stated (Spec): for every scalar parameter with a documented domain,
\* quality among them, set(v) followed by get() of that parameter returns v.
C8_EveryScalarReadsBack ==
    (Driven1 /\ status = "running") =>
        \A p \in DocScalars : shadow[1][p] # <<>> => ReadsBack(p, shadow[1][p][1])

\* C8 amended (Spec): for vbr_quality, plc_tuning, abr, bitrate,
\* sampling_rate and vbr_max_bitrate, set(v) followed by get() returns v;
\* quality has a setter only, so no operation reads it back.
C8_ScalarRoundTrip ==
    Driven1 =>
        /\ GettersOf("quality") = {}
        /\ status = "running" =>
              \A p \in DocScalars \ {"quality"} :
                  shadow[1][p] # <<>> => ReadsBack(p, shadow[1][p][1])
        /\ (last.via = "named" /\ last.op \in ScalarGetters /\ last.outcome = "Ok"
              /\ ParamOf(last.op) \in DocScalars) =>
              (shadow[1][ParamOf(last.op)] # <<>> => last.ret = shadow[1][ParamOf(last.op)])

\* C8 witness: get_bitrate returned 7 after set_bitrate(7).
C8_Witness ==
    /\ Driven1 /\ last.via = "named" /\ last.op = "get_bitrate" /\ last.outcome = "Ok"
    /\ shadow[1]["bitrate"] = <<7>> /\ last.ret = <<7>>

---------------------------------------------------------------------------
(* Claims about the lifecycle.                                             *)

\* The handles a SpeexEncoder::new / SpeexDecoder::new created.
CoderHandles == {h \in Handles : engine[h].owner = "coder"}

\* The slots whose coder holds handle h.
HoldersOf(h) == {c \in CoderSlots : coders[c].st # "none" /\ coders[c].encoder_handle = h}

\* C3 (SpecLife): the handle a coder's new() created is held by that coder
\* alone, is live and untouched by any destructor while the coder lives, and
\* once the coder is dropped it was destroyed exactly once, by the destructor
\* of its own kind; the engine is never called on it after that.
C3_DestroyedOnceByOwnKind ==
    \A h \in CoderHandles :
        /\ Cardinality(HoldersOf(h)) = 1
        /\ \A c \in HoldersOf(h) :
              /\ coders[c].kind = engine[h].kind
              /\ coders[c].st = "live" =>
                    engine[h].alloc = "live" /\ destroys[h].n = "none"
              /\ coders[c].st = "dropped" =>
                    /\ engine[h].alloc = "freed"
                    /\ destroys[h] = [kinds |-> {engine[h].kind}, n |-> "once"]
        /\ \A f \in faults : f.ptr # h

\* C3 witness: a decoder that was constructed is dropped, its handle
\* destroyed once by the decoder's destructor.
C3_Witness ==
    \E c \in CoderSlots :
        /\ coders[c].st = "dropped" /\ coders[c].kind = "dec"
        /\ coders[c].encoder_handle \in CoderHandles
        /\ destroys[coders[c].encoder_handle] = [kinds |-> {"dec"}, n |-> "once"]
        /\ engine[coders[c].encoder_handle].alloc = "freed"

\* C5 (SpecLife): no sequence of calls of the exposed functions makes the
\* engine destroy a handle twice, or destroy a handle that is no live
\* instance.
C5_NoDoubleDestroy ==
    \A h \in Handles :
        /\ destroys[h].n # "more"
        /\ [fn |-> "destroy", ptr |-> h] \notin faults

\* C12 (SpecLife): a coder that was constructed holds a handle that is not
\* null, so neither a control call nor the drop of a coder hands the engine
\* a null handle.
C12_NoNullHandle ==
    /\ \A c \in CoderSlots : coders[c].st # "none" => coders[c].encoder_handle # NULL
    /\ [fn |-> "ctl", ptr |-> NULL] \notin faults

\* C4 (SpecStereo): every address the engine's reset and destroy receive for
\* a stereo state is the address init returned for it, and when the state is
\* dropped that context was released (once: a released context is not live,
\* and a second release would be a fault).
C4_SameContextDestroyedOnce ==
    \A s \in StereoSlots :
        stereo[s].st # "none" =>
            /\ \A call \in heap.calls : call.slot = s => call.addr = stereo[s].init_ptr
            /\ stereo[s].st = "dropped" => heap.ctx[stereo[s].init_ptr] = "freed"
            /\ \A f \in faults : f.fn # "stereo_destroy"

---------------------------------------------------------------------------
(* Claims about the dynamic facade.                                        *)

\* C9 (SpecDyn): the tag of a facade is the tag it was constructed with,
\* whatever operations were called on it; an operation called on the facade
\* went to the instance of the coder the facade contains; and an instance
\* that is not the facade's own, and not driven in step with it, is as the
\* engine made it.
C9_TagFixedAndForwardedToInner ==
    dyn.st # "none" =>
        /\ dyn.tag = dyn.chosen
        /\ dyn.tag = TagOf(dyn.inner.mode.modeID)
        /\ last.via \in {"facade", "both"} => last.handle = dyn.inner.encoder_handle
        /\ \A h \in Handles :
              (h # dyn.inner.encoder_handle /\ ~sync) => engine[h].store = EngineDefaults

\* C9 witness: a setter called on a wideband facade completed and changed
\* the instance of the facade's coder, while another coder is live.
C9_Witness ==
    /\ dyn.st = "live" /\ dyn.tag = "Wb"
    /\ last.via = "facade" /\ last.op \in Setters /\ last.outcome = "Ok"
    /\ engine[dyn.inner.encoder_handle].store # EngineDefaults
    /\ coders[1].st = "live" /\ Live(coders[1].encoder_handle)

\* C10 (SpecDyn): a facade and a coder of the same kind and mode that were
\* given the same operations with the same arguments hold the same
\* parameters, and the last operation gave the same result (its outcome, the
\* value it returned, the request it issued) on both.
C10_FacadeEqualsDirect ==
    /\ (InStep /\ dyn.st = "live") =>
          /\ Live(dyn.inner.encoder_handle) /\ Live(coders[1].encoder_handle)
          /\ engine[dyn.inner.encoder_handle].store = engine[coders[1].encoder_handle].store
          /\ engine[dyn.inner.encoder_handle].mode = engine[coders[1].encoder_handle].mode
          /\ engine[dyn.inner.encoder_handle].kind = engine[coders[1].encoder_handle].kind
    /\ last.via = "both" =>
          last.twin = <<[outcome |-> last.outcome, ret |-> last.ret, request |-> last.request]>>

\* C10 witness: after set_quality(7) on both, get_bitrate was called on both
\* and returned.
C10_Witness ==
    /\ InStep /\ dyn.st = "live"
    /\ engine[dyn.inner.encoder_handle].store.quality = 7
    /\ last.via = "both" /\ last.op = "get_bitrate" /\ last.outcome = "Ok"

---------------------------------------------------------------------------
(* Claims about the mode registry and the selector conversions.            *)

\* C11 (SpecMode): when the engine's mode table fails for a defined mode
\* (the lookup answers null, or the frame-size query answers an error),
\* get_mode and get_frame_size return nothing to their caller and the
\* program does not run on.
C11_TableFailureIsFatal ==
    (last.via = "mode" /\ (last.handle = NULL \/ last.err_code # 0)) =>
        /\ last.outcome # "Ok"
        /\ status # "running"

\* The integers each enum defines a variant for.
DefinedSelectors(enum) ==
    CASE enum = "ModeId" -> {SPEEX_MODEID_NB, SPEEX_MODEID_WB, SPEEX_MODEID_UWB}
      [] enum = "NbSubmodeId" -> 1..8
      [] enum = "WbSubmodeId" -> 1..4
      [] enum = "UwbSubmodeId" -> {1}

\* C13 (SpecMode): a conversion from a defined integer returns the variant
\* whose discriminant is that integer; a conversion from any other integer
\* returns no variant and panics.
C13_ConversionExactOrPanic ==
    last.via = "from" =>
        IF last.arg[1] \in DefinedSelectors(last.op)
        THEN /\ last.outcome = "Ok"
             /\ Len(last.ret) = 1
             /\ Discriminant(last.op, last.ret[1]) = last.arg[1]
             /\ status = "running"
        ELSE /\ last.outcome = "Panic"
             /\ last.ret = <<>>
             /\ status = "panicked"

\* C13 witness: NbSubmodeId::from(8) returned ExtremeLow, the variant
\* declared out of order.
C13_Witness ==
    /\ last.via = "from" /\ last.op = "NbSubmodeId" /\ last.arg = <<8>>
    /\ last.outcome = "Ok" /\ last.ret = <<"ExtremeLow">>

---------------------------------------------------------------------------
(* Claims about independence.                                              *)

\* What belongs to the coder in slot c: its handle and mode reference, and
\* the engine instance behind the handle.
CoderFootprint(c) ==
    <<coders[c],
      IF coders[c].encoder_handle \in Handles THEN engine[coders[c].encoder_handle]
      ELSE FreeInstance>>

\* What belongs to the stereo state in slot s: its contents, and the engine
\* context init answered for it.
StereoFootprint(s) ==
    <<stereo[s],
      IF stereo[s].init_ptr \in Contexts THEN heap.ctx[stereo[s].init_ptr] ELSE "free">>

=============================================================================
